---------------------------- MODULE Spec2Model ----------------------------
(***************************************************************************)
(* A model of the AP Weather & AQI dashboard (src/app.py) and of the       *)
(* stand-alone forecast script (src/predict.py).                           *)
(*                                                                         *)
(* The dashboard is a Streamlit script: every user interaction re-runs the *)
(* script top to bottom.  One run is modelled as the positions             *)
(*   load -> sidebar -> kpis -> tab2 -> tab3 -> done                       *)
(* with the two ways a run ends early: st.stop() ("stopped") and an        *)
(* exception nobody catches ("error").  The two st.cache_data memo tables  *)
(* outlive the runs; the CSV file on disk is the environment (it is read    *)
(* only by the load step, so its changes are taken between two runs).      *)
(*                                                                         *)
(* Three specifications share the state: Spec, the dashboard run on a few  *)
(* files; SpecLoad, load_data on every small file; SpecForecast, direct    *)
(* calls of forecast_city (of app.py and of predict.py) with any horizon.  *)
(*                                                                         *)
(* Units: dates are day ordinals of the year 2024 (1 = 1 Jan); rainfall    *)
(* is in tenths of a millimetre, temperature in tenths of a degree, so     *)
(* -3.2 mm is -32 and the advisory thresholds 50 mm / 10 mm are 500 / 100. *)
(* An absent value (None, NaN, NaT) is the empty tuple, a present value v  *)
(* is <<v>>, wherever a field is optional.                                 *)
(***************************************************************************)
EXTENDS Integers, Sequences, FiniteSets, TLC

VARIABLES
    disk,            \* content of DATA_FILE on disk (the environment)
    load_cache,      \* st.cache_data table of load_data (one key: DATA_FILE)
    fc_cache,        \* st.cache_data table of forecast_city, keyed (city, column, days)
    loaded_from,     \* history: the file content load_data's body last read
    pc,              \* position of the current script run
    data,            \* module-level `data` of the run
    city,            \* sidebar selectbox
    date_range,      \* sidebar date_input: a tuple of one or two dates
    compare_cities,  \* sidebar multiselect
    err,             \* st.error message shown by this run ("" = none)
    exc,             \* exception that ended this run ("" = none)
    kpi,             \* the three st.metric cards
    forecast_temp,   \* tab2
    forecast_rain,   \* tab2
    total_pred_rain, \* tab2
    rain_insight,    \* tab2
    comparison,      \* tab3
    served,          \* history: how tab2's forecasts were obtained
    prophet,         \* what Prophet.predict answers for the k-th future day
    fc_args,         \* arguments of the last direct forecast_city call
    df,              \* forecast_city's local df, the frame given to model.fit
    forecast         \* return value of the last direct forecast_city call

vars == <<disk, load_cache, fc_cache, loaded_from, pc, data, city, date_range,
          compare_cities, err, exc, kpi, forecast_temp, forecast_rain,
          total_pred_rain, rain_insight, comparison, served, prophet,
          fc_args, df, forecast>>

-----------------------------------------------------------------------------
(* Bounds of the model.                                                    *)

MaxRows == 3

MaxDays == 3

-----------------------------------------------------------------------------
(* Generic helpers.                                                        *)

None == <<>>

Some(v) == <<v>>

Range(s) == {s[i] : i \in DOMAIN s}

RECURSIVE SumSeq(_)
SumSeq(s) == IF s = <<>> THEN 0 ELSE Head(s) + SumSeq(Tail(s))

MaxOf(S) == CHOOSE x \in S : \A y \in S : y <= x

MinOf(S) == CHOOSE x \in S : \A y \in S : x <= y

SeqsUpTo(S, n) == UNION {[1..k -> S] : k \in 0..n}

\* The ascending sequence of the elements of a finite set of integers.
RECURSIVE SortedSeq(_)
SortedSeq(S) == IF S = {} THEN <<>> ELSE <<MinOf(S)>> \o SortedSeq(S \ {MinOf(S)})

-----------------------------------------------------------------------------
(* load_data: src/app.py 85-125.                                           *)

NaT == None

\* A missing reading of a metric column.
NaN == None

Columns == {"Date", "City", "Avg_Temperature", "Rainfall(mm)", "AQI"}

\* rename_dict, applied to a header name.
Rename(h) ==
    CASE h = "DATE" -> "Date"
      [] h = "T2M" -> "Avg_Temperature"
      [] h = "T2M_MAX" -> "Max_Temperature"
      [] h = "T2M_MIN" -> "Min_Temperature"
      [] h = "PRECTOTCORR" -> "Rainfall(mm)"
      [] OTHER -> h

DaysIn(m) == IF m = 2 THEN 29 ELSE IF m \in {4, 6, 9, 11} THEN 30 ELSE 31

RECURSIVE DaysBefore(_)
DaysBefore(m) == IF m <= 1 THEN 0 ELSE DaysIn(m - 1) + DaysBefore(m - 1)

Ordinal(d, m) == DaysBefore(m) + d

\* pd.to_datetime(text, dayfirst=True, errors='coerce') of the text "a-b-2024":
\* day first; when that is no calendar date the parser reads it month first;
\* when neither is a date the value is coerced to NaT.
ParseDate(tok) ==
    LET a == tok[1]
        b == tok[2]
    IN  IF b \in 1..12 /\ a \in 1..DaysIn(b) THEN Some(Ordinal(a, b))
        ELSE IF a \in 1..12 /\ b \in 1..DaysIn(a) THEN Some(Ordinal(b, a))
        ELSE NaT

\* data['Date'] = pd.to_datetime(data['Date'], ...)
ToDatetime(rows) ==
    [i \in DOMAIN rows |-> [rows[i] EXCEPT !["Date"] = ParseDate(@)]]

DropNaAll(rows) == rows

\* data.dropna(subset=['Date'])
DropNa(rows) ==
    LET HasDate(r) == r["Date"] # NaT
    IN  SelectSeq(rows, HasDate)

\* coords, in 1/10000 of a degree.
coords ==
    [c \in {"Anantapur", "Chittoor", "Eluru", "Guntur", "Hindupur", "Kadapa",
            "Kakinada", "Kurnool", "Machilipatnam", "Nellore", "Ongole",
            "Rajahmundry", "Tirupati", "Vijayawada", "Visakhapatnam"} |->
        CASE c = "Anantapur" -> <<146819, 776006>>
          [] c = "Chittoor" -> <<132176, 791001>>
          [] c = "Eluru" -> <<167118, 810963>>
          [] c = "Guntur" -> <<163067, 804365>>
          [] c = "Hindupur" -> <<138295, 774929>>
          [] c = "Kadapa" -> <<144673, 788242>>
          [] c = "Kakinada" -> <<169891, 822475>>
          [] c = "Kurnool" -> <<158281, 780373>>
          [] c = "Machilipatnam" -> <<161750, 811325>>
          [] c = "Nellore" -> <<144426, 799865>>
          [] c = "Ongole" -> <<155057, 800483>>
          [] c = "Rajahmundry" -> <<170005, 818040>>
          [] c = "Tirupati" -> <<136288, 794192>>
          [] c = "Vijayawada" -> <<165062, 806480>>
          [] OTHER -> <<176868, 832185>>]

\* coords.get(x, (None, None))
CoordsGet(x) ==
    IF x \in DOMAIN coords
    THEN <<Some(coords[x][1]), Some(coords[x][2])>>
    ELSE <<None, None>>

\* data['lat'] = ...; data['lon'] = ...
AttachCoords(rows) ==
    [i \in DOMAIN rows |->
        rows[i] @@ ("lat" :> CoordsGet(rows[i]["City"])[1])
                @@ ("lon" :> CoordsGet(rows[i]["City"])[2])]

\* The body of load_data on the content of file_path.  The answer is what the
\* call does: the exception it raises ("" = none), the st.error it shows
\* ("" = none) and the frame it returns.
LoadDataBody(file) ==
    IF file.kind = "missing"
    THEN [raised |-> "", error |-> "file not found", frame |-> <<>>]
    ELSE IF file.kind = "unreadable"
    THEN [raised |-> "read_csv", error |-> "", frame |-> <<>>]
    ELSE IF "Date" \notin {Rename(h) : h \in file.columns}
    THEN [raised |-> "", error |-> "no Date column", frame |-> <<>>]
    ELSE [raised |-> "", error |-> "",
          frame |-> AttachCoords(DropNa(ToDatetime(file.rows)))]

NoCache == <<>>

LoadDataUncached(cache, file) == LoadDataBody(file)

\* @st.cache_data load_data(file_path): the only key ever used is DATA_FILE,
\* so a stored answer is served whatever the file holds by then.
load_data(cache, file) ==
    IF cache # NoCache THEN cache[1] ELSE LoadDataBody(file)


-----------------------------------------------------------------------------
(* forecast_city: src/app.py 127-150 (and src/predict.py 10-38).           *)

RainColumn == "Rainfall(mm)"

TempColumn == "Avg_Temperature"

ExtractAll(_data, c, column) ==
    [i \in DOMAIN _data |-> [ds |-> _data[i]["Date"][1], y |-> _data[i][column]]]

\* city_data = _data[_data['City'] == city]
\* df = city_data[['Date', column]].rename(columns={'Date':'ds', column:'y'})
\* df['ds'] = pd.to_datetime(df['ds'])   (already a timestamp: unchanged)
Extract(_data, c, column) ==
    LET IsCity(r) == r["City"] = c
        city_data == SelectSeq(_data, IsCity)
    IN  [i \in DOMAIN city_data |->
            [ds |-> city_data[i]["Date"][1], y |-> city_data[i][column]]]

\* src/predict.py 21-26: the same filter and projection.
ExtractScript(_data, c, column) ==
    LET IsCity(r) == r["City"] = c
        city_data == SelectSeq(_data, IsCity)
    IN  [i \in DOMAIN city_data |->
            [ds |-> city_data[i]["Date"][1], y |-> city_data[i][column]]]

DsOf(frame) == {frame[i].ds : i \in DOMAIN frame}

\* Prophet.fit raises ValueError('Dataframe has less than 2 non-NaN rows.')
FitRaises(frame) == Cardinality({i \in DOMAIN frame : frame[i].y # NaN}) < 2

\* Prophet.fit: history_dates = the unique ds values of df (rows without a
\* reading included), sorted.
HistoryDates(frame) == SortedSeq(DsOf(frame))

\* model.make_future_dataframe(periods=days):
\*   last_date = history_dates.max()
\*   dates = date_range(start=last_date, periods=periods + 1, freq='D')
\*   dates = dates[dates > last_date][:periods]
\*   history_dates followed by dates
MakeFutureDataframe(frame, periods) ==
    LET last_date == MaxOf(DsOf(frame))
        dates == [k \in 1..(periods + 1) |-> last_date + (k - 1)]
        After(d) == d > last_date
        later == SelectSeq(dates, After)
    IN  HistoryDates(frame) \o SubSeq(later, 1, periods)

\* model.predict(future): one row per row of `future`.  The values are the
\* model's own; raw[k] is its answer for the k-th day after the history (and
\* raw[1] stands for its reconstruction of a historical day).
Predict(frame, future, raw) ==
    LET last_date == MaxOf(DsOf(frame))
        At(d) == IF d > last_date THEN raw[d - last_date] ELSE raw[1]
    IN  [i \in DOMAIN future |->
            [ds |-> future[i], yhat |-> At(future[i]).yhat,
             yhat_lower |-> At(future[i]).yhat_lower,
             yhat_upper |-> At(future[i]).yhat_upper]]

FutureOnlyInclusive(frame, fc) ==
    LET last_date == MaxOf(DsOf(frame))
        After(r) == r.ds >= last_date
    IN  SelectSeq(fc, After)

\* last_date = df['ds'].max(); forecast[forecast['ds'] > last_date]
FutureOnly(frame, fc) ==
    LET last_date == MaxOf(DsOf(frame))
        After(r) == r.ds > last_date
    IN  SelectSeq(fc, After)

ClipNone(x) == x

\* Series.clip(lower=0), on one value
Clip(x) == IF x < 0 THEN 0 ELSE x

ClipLowerOnly(rows, column) ==
    IF column = RainColumn
    THEN [i \in DOMAIN rows |-> [rows[i] EXCEPT !.yhat_lower = Clip(@)]]
    ELSE rows

\* if column == "Rainfall(mm)": clip yhat, yhat_lower, yhat_upper
PostProcess(rows, column) ==
    IF column = RainColumn
    THEN [i \in DOMAIN rows |->
            [rows[i] EXCEPT !.yhat = Clip(@), !.yhat_lower = Clip(@),
                            !.yhat_upper = Clip(@)]]
    ELSE rows

\* forecast_future before the clipping (lines 132-143), for a frame that fits.
ForecastFuture(frame, days, raw) ==
    FutureOnly(frame, Predict(frame, MakeFutureDataframe(frame, days), raw))

\* The body of forecast_city: what it raises ("" = nothing) and returns.
ForecastCity(_data, c, column, days, raw) ==
    LET frame == Extract(_data, c, column)
    IN  IF FitRaises(frame)
        THEN [raised |-> "fit", rows |-> <<>>]
        ELSE [raised |-> "",
              rows |-> PostProcess(ForecastFuture(frame, days, raw), column)]

\* src/predict.py 10-38: forecast_city of the script returns the whole forecast,
\* the reconstruction of the history included, unclipped.
ForecastCityScript(_data, c, column, days, raw) ==
    LET frame == ExtractScript(_data, c, column)
    IN  IF FitRaises(frame)
        THEN [raised |-> "fit", rows |-> <<>>]
        ELSE [raised |-> "",
              rows |-> Predict(frame, MakeFutureDataframe(frame, days), raw)]

HeavyRain == 500

ModerateRain == 100

\* total_pred_rain = forecast_rain['yhat'].sum()
TotalPredRain(rows) == SumSeq([i \in DOMAIN rows |-> rows[i].yhat])

RainInsightInclusive(total) ==
    IF total >= HeavyRain THEN "heavy"
    ELSE IF total > ModerateRain THEN "moderate"
    ELSE "dry"

\* rain_insight: the if / elif / else on total_pred_rain
RainInsight(total) ==
    IF total > HeavyRain THEN "heavy"
    ELSE IF total > ModerateRain THEN "moderate"
    ELSE "dry"


-----------------------------------------------------------------------------
(* The script of src/app.py, lines 155-405.                                *)

ForecastDays == 7

DefaultCompare == {"Vijayawada", "Visakhapatnam", "Tirupati"}

\* Series.mean(): NaN for a series without values (shown to two decimals, so
\* the integer quotient of the tenths is kept).
Mean(s) == IF Len(s) = 0 THEN NaN ELSE Some(SumSeq(s) \div Len(s))

\* The values of a column that sum() and mean() reduce: they skip NaN.
Column(rows, column) ==
    LET HasValue(r) == r[column] # NaN
        valued == SelectSeq(rows, HasValue)
    IN  [i \in DOMAIN valued |-> valued[i][column][1]]

\* sorted(data['City'].unique())
CityOptions(_data) == {_data[i]["City"] : i \in DOMAIN _data}

DatesOf(_data) == {_data[i]["Date"][1] : i \in DOMAIN _data}

\* the choices st.date_input offers between min_date and max_date: a start
\* alone, or a start and an end not before it
DateRanges(_data) ==
    LET days == MinOf(DatesOf(_data))..MaxOf(DatesOf(_data))
    IN  {<<s>> : s \in days} \cup {p \in days \X days : p[1] <= p[2]}

\* city_data = data[(City == city) & (Date >= start_date) & (Date <= end_date)]
CityData(_data, c, range) ==
    LET Picked(r) == /\ r["City"] = c
                     /\ r["Date"][1] >= range[1]
                     /\ r["Date"][1] <= range[2]
    IN  SelectSeq(_data, Picked)

\* the three st.metric cards
Kpis(city_data) ==
    [state |-> "values",
     avg_temp |-> Mean(Column(city_data, TempColumn)),
     total_rain |-> SumSeq(Column(city_data, RainColumn)),
     mean_aqi |-> Mean(Column(city_data, "AQI"))]

\* comparison_data and total_rain = groupby('City')['Rainfall(mm)'].sum()
Comparison(_data, cities, range) ==
    LET Picked(r) == /\ r["City"] \in cities
                     /\ r["Date"][1] >= range[1]
                     /\ r["Date"][1] <= range[2]
        comparison_data == SelectSeq(_data, Picked)
        Of(c) == LET Is(r) == r["City"] = c IN SelectSeq(comparison_data, Is)
    IN  [state |-> "shown",
         total_rain |-> {<<c, SumSeq(Column(Of(c), RainColumn))>> :
                            c \in CityOptions(comparison_data)}]

CacheKeys(cache) == {e.key : e \in cache}

CacheGet(cache, key) == (CHOOSE e \in cache : e.key = key).rows

\* @st.cache_data forecast_city(_data, city, column, days): the leading
\* underscore keeps _data out of the key.  A call that raises stores nothing.
forecast_city(cache, _data, c, column, days, raw) ==
    LET key == <<c, column, days>>
        res == ForecastCity(_data, c, column, days, raw)
    IN  IF key \in CacheKeys(cache)
        THEN [raised |-> "", rows |-> CacheGet(cache, key), hit |-> TRUE,
              cache |-> cache]
        ELSE IF res.raised # ""
        THEN [raised |-> res.raised, rows |-> <<>>, hit |-> FALSE, cache |-> cache]
        ELSE [raised |-> "", rows |-> res.rows, hit |-> FALSE,
              cache |-> cache \cup {[key |-> key, rows |-> res.rows]}]

NoKpi == [state |-> "none"]

NoComparison == [state |-> "none"]

\* What a run has shown or computed so far: nothing.
NoOutputs ==
    /\ city = ""
    /\ date_range = <<>>
    /\ compare_cities = {}
    /\ err = ""
    /\ exc = ""
    /\ kpi = NoKpi
    /\ forecast_temp = None
    /\ forecast_rain = None
    /\ total_pred_rain = None
    /\ rain_insight = ""
    /\ comparison = NoComparison
    /\ served = <<>>

NoDirectCall ==
    /\ fc_args = None
    /\ df = <<>>
    /\ forecast = None

outputs == <<city, date_range, compare_cities, err, exc, kpi, forecast_temp,
             forecast_rain, total_pred_rain, rain_insight, comparison, served>>

direct == <<fc_args, df, forecast>>

caches == <<load_cache, fc_cache, loaded_from>>

\* data = load_data(DATA_FILE); if data.empty: st.stop()
Load ==
    /\ pc = "load"
    /\ LET res == load_data(load_cache, disk)
       IN  /\ loaded_from' = IF load_cache # NoCache THEN loaded_from ELSE Some(disk)
           /\ IF res.raised # ""
              THEN /\ exc' = res.raised
                   /\ pc' = "error"
                   /\ UNCHANGED <<load_cache, data, err>>
              ELSE /\ load_cache' = Some(res)
                   /\ data' = res.frame
                   /\ err' = res.error
                   /\ pc' = IF res.frame = <<>> THEN "stopped" ELSE "sidebar"
                   /\ UNCHANGED exc
    /\ UNCHANGED <<disk, fc_cache, city, date_range, compare_cities, kpi,
                   forecast_temp, forecast_rain, total_pred_rain, rain_insight,
                   comparison, served, prophet, direct>>

\* Sidebar controls, lines 164-191: the selectbox, the date_input with the stop
\* on an incomplete range, then the multiselect, which raises when one of its
\* default cities is not among the options.
Sidebar ==
    /\ pc = "sidebar"
    /\ \E c \in CityOptions(data), range \in DateRanges(data),
          cmp \in SUBSET CityOptions(data) :
          /\ city' = c
          /\ date_range' = range
          /\ IF Len(range) # 2
             THEN /\ pc' = "stopped"
                  /\ UNCHANGED <<compare_cities, exc>>
             ELSE IF ~(DefaultCompare \subseteq CityOptions(data))
             THEN /\ pc' = "error"
                  /\ exc' = "multiselect"
                  /\ UNCHANGED compare_cities
             ELSE /\ pc' = "kpis"
                  /\ compare_cities' = cmp
                  /\ UNCHANGED exc
    /\ UNCHANGED <<disk, caches, data, err, kpi, forecast_temp, forecast_rain,
                   total_pred_rain, rain_insight, comparison, served, prophet,
                   direct>>

\* Lines 199-254: city_data, the KPI cards and tab1's charts of city_data.
KpiCards ==
    /\ pc = "kpis"
    /\ kpi' = Kpis(CityData(data, city, date_range))
    /\ pc' = "tab2"
    /\ UNCHANGED <<disk, caches, data, city, date_range, compare_cities, err,
                   exc, forecast_temp, forecast_rain, total_pred_rain,
                   rain_insight, comparison, served, prophet, direct>>

\* tab2, lines 256-352: the two forecast_city calls, the summary, the advisory.
\* An exception of a call is not caught: it ends the run.
Tab2 ==
    /\ pc = "tab2"
    /\ LET t == forecast_city(fc_cache, data, city, TempColumn, ForecastDays, prophet)
           r == forecast_city(t.cache, data, city, RainColumn, ForecastDays, prophet)
       IN  IF t.raised # "" \/ r.raised # ""
           THEN /\ pc' = "error"
                /\ exc' = "forecast"
                /\ fc_cache' = IF t.raised # "" THEN fc_cache ELSE t.cache
                /\ UNCHANGED <<forecast_temp, forecast_rain, total_pred_rain,
                               rain_insight, served>>
           ELSE /\ pc' = "tab3"
                /\ forecast_temp' = t.rows
                /\ forecast_rain' = r.rows
                /\ total_pred_rain' = Some(TotalPredRain(r.rows))
                /\ rain_insight' = RainInsight(TotalPredRain(r.rows))
                /\ served' = <<t.hit, r.hit>>
                /\ fc_cache' = r.cache
                /\ UNCHANGED exc
    /\ UNCHANGED <<disk, load_cache, loaded_from, data, city, date_range,
                   compare_cities, err, kpi, comparison, prophet, direct>>

\* tab3, lines 355-405.
Tab3 ==
    /\ pc = "tab3"
    /\ comparison' = IF compare_cities = {}
                     THEN [state |-> "warning"]
                     ELSE Comparison(data, compare_cities, date_range)
    /\ pc' = "done"
    /\ UNCHANGED <<disk, caches, data, city, date_range, compare_cities, err,
                   exc, kpi, forecast_temp, forecast_rain, total_pred_rain,
                   rain_insight, served, prophet, direct>>

RunOver == pc \in {"done", "stopped", "error"}

\* A widget interaction (or a reload of the page) starts the script again.
Rerun ==
    /\ RunOver
    /\ pc' = "load"
    /\ data' = <<>>
    /\ city' = ""
    /\ date_range' = <<>>
    /\ compare_cities' = {}
    /\ err' = ""
    /\ exc' = ""
    /\ kpi' = NoKpi
    /\ forecast_temp' = None
    /\ forecast_rain' = None
    /\ total_pred_rain' = None
    /\ rain_insight' = ""
    /\ comparison' = NoComparison
    /\ served' = <<>>
    /\ UNCHANGED <<disk, caches, prophet, direct>>


-----------------------------------------------------------------------------
(* The inputs the model draws from.                                        *)

MkRow(date, c, t, r, q) ==
    ("Date" :> date) @@ ("City" :> c) @@ ("Avg_Temperature" :> t)
        @@ ("Rainfall(mm)" :> r) @@ ("AQI" :> q)

RawHeader == {"DATE", "City", "T2M", "T2M_MAX", "T2M_MIN", "PRECTOTCORR", "AQI"}

LabelledHeader == {"Date", "City", "Avg_Temperature", "Rainfall(mm)", "AQI"}

DatelessHeader == {"Day", "City", "Avg_Temperature", "Rainfall(mm)", "AQI"}

Table(header, rows) == [kind |-> "table", columns |-> header, rows |-> rows]

MissingFile == [kind |-> "missing", columns |-> {}, rows |-> <<>>]

UnreadableFile == [kind |-> "unreadable", columns |-> {}, rows |-> <<>>]

\* Date texts "a-b-2024": 1 Jan, 2 Jan (not 1 Feb), 13 Jan, "01-13" (read
\* month first), 31 Feb (no date) and a text that is no date at all.
RawDates == {<<1, 1>>, <<2, 1>>, <<13, 1>>, <<1, 13>>, <<31, 2>>, <<0, 0>>}

RawRows == {MkRow(d, c, Some(250), Some(0), Some(50)) : d \in RawDates, c \in {"Vijayawada", "Amaravati"}}

\* Every file load_data is tried on.
AllFiles ==
    {MissingFile, UnreadableFile}
        \cup {Table(h, rows) : h \in {RawHeader, LabelledHeader, DatelessHeader},
                               rows \in SeqsUpTo(RawRows, MaxRows)}

\* The files the dashboard is run on.
FileA ==
    Table(RawHeader,
          <<MkRow(<<1, 1>>, "Vijayawada", Some(300), Some(0), Some(50)),
            MkRow(<<1, 1>>, "Visakhapatnam", Some(280), Some(50), Some(40)),
            MkRow(<<2, 1>>, "Tirupati", Some(270), Some(30), Some(55)),
            MkRow(<<2, 1>>, "Vijayawada", Some(310), Some(12), Some(60)),
            MkRow(<<3, 1>>, "Visakhapatnam", Some(290), Some(0), Some(45))>>)

FileB ==
    Table(LabelledHeader,
          <<MkRow(<<1, 1>>, "Vijayawada", Some(300), Some(0), Some(50)),
            MkRow(<<1, 1>>, "Visakhapatnam", Some(280), Some(50), Some(40)),
            MkRow(<<1, 1>>, "Tirupati", Some(260), Some(0), Some(55)),
            MkRow(<<2, 1>>, "Vijayawada", Some(310), Some(12), Some(60)),
            MkRow(<<2, 1>>, "Visakhapatnam", Some(285), NaN, Some(42)),
            MkRow(<<2, 1>>, "Tirupati", Some(270), Some(30), Some(55)),
            MkRow(<<4, 1>>, "Vijayawada", Some(320), Some(0), Some(65))>>)

FileOtherCities ==
    Table(LabelledHeader,
          <<MkRow(<<1, 1>>, "Amaravati", Some(300), Some(0), Some(50)),
            MkRow(<<2, 1>>, "Amaravati", Some(310), Some(12), Some(60))>>)

FileBadDates ==
    Table(LabelledHeader, <<MkRow(<<31, 2>>, "Vijayawada", Some(300), Some(0), Some(50))>>)

FileNoDate ==
    Table(DatelessHeader, <<MkRow(<<1, 1>>, "Vijayawada", Some(300), Some(0), Some(50))>>)

AppFiles ==
    {MissingFile, UnreadableFile, FileNoDate, FileBadDates, FileOtherCities,
     FileA, FileB}

T(l, y, u) == [yhat_lower |-> l, yhat |-> y, yhat_upper |-> u]

\* What the fitted model may answer for one day: all three negative, the point
\* and the lower bound negative, the lower bound alone, none; totals on both
\* sides of each advisory threshold and on it; one answer whose bounds are
\* not around the point.
Triples ==
    {T(-72, -32, -5), T(-72, -32, 8), T(-10, 80, 120), T(0, 0, 0),
     T(60, 100, 140), T(61, 101, 141), T(460, 500, 540), T(461, 501, 541),
     T(580, 620, 660), T(90, 80, 70)}

AppProphet ==
    [k \in 1..ForecastDays |-> IF k % 2 = 1 THEN T(-72, -32, 8) ELSE T(60, 100, 140)]

FlatProphet == [k \in 1..MaxDays |-> T(-10, 80, 120)]

\* Loaded rows of two cities on days 1, 2 and 4 (a gap), with readings or
\* without.
SeriesRows ==
    {AttachCoords(<<MkRow(Some(d), c, m[1], m[2], Some(50))>>)[1] :
        d \in {1, 2, 4}, c \in {"Vijayawada", "Amaravati"},
        m \in {<<Some(250), Some(12)>>, <<NaN, NaN>>}}

ValuesFrame ==
    AttachCoords(<<MkRow(Some(1), "Vijayawada", Some(250), Some(0), Some(50)),
                   MkRow(Some(2), "Vijayawada", Some(310), Some(12), Some(50))>>)

-----------------------------------------------------------------------------
(* The environment of the dashboard.                                       *)

\* The CSV file is replaced, removed or damaged between two runs.
DiskChange ==
    /\ RunOver
    /\ \E f \in AppFiles \ {disk} : disk' = f
    /\ UNCHANGED <<caches, pc, data, outputs, prophet, direct>>

\* Streamlit's "Clear cache" empties every st.cache_data table.
ClearCache ==
    /\ RunOver
    /\ load_cache # NoCache \/ fc_cache # {}
    /\ load_cache' = NoCache
    /\ fc_cache' = {}
    /\ UNCHANGED <<disk, loaded_from, pc, data, outputs, prophet, direct>>

-----------------------------------------------------------------------------
(* Direct calls of forecast_city, with any horizon.                        *)

ForecastCall ==
    /\ pc = "call"
    /\ \E c \in {"Vijayawada", "Amaravati"}, column \in {TempColumn, RainColumn},
          days \in 1..MaxDays :
          /\ fc_args' = Some([city |-> c, column |-> column, days |-> days])
          /\ df' = Extract(data, c, column)
          /\ forecast' = Some(ForecastCity(data, c, column, days, prophet))
    /\ pc' = "called"
    /\ UNCHANGED <<disk, caches, data, outputs, prophet>>

\* src/predict.py 48-51: the script's calls of its own forecast_city.
ScriptCall ==
    /\ pc = "call"
    /\ \E c \in {"Vijayawada", "Amaravati"}, column \in {TempColumn, RainColumn},
          days \in 1..MaxDays :
          /\ fc_args' = Some([city |-> c, column |-> column, days |-> days])
          /\ df' = ExtractScript(data, c, column)
          /\ forecast' = Some(ForecastCityScript(data, c, column, days, prophet))
    /\ pc' = "script_called"
    /\ UNCHANGED <<disk, caches, data, outputs, prophet>>

\* total_pred_rain and rain_insight of a rainfall forecast (lines 264, 344-350).
Summarize ==
    /\ pc = "called"
    /\ fc_args[1].column = RainColumn
    /\ forecast[1].raised = ""
    /\ total_pred_rain' = Some(TotalPredRain(forecast[1].rows))
    /\ rain_insight' = RainInsight(TotalPredRain(forecast[1].rows))
    /\ pc' = "summarized"
    /\ UNCHANGED <<disk, caches, data, city, date_range, compare_cities, err,
                   exc, kpi, forecast_temp, forecast_rain, comparison, served,
                   prophet, direct>>

-----------------------------------------------------------------------------
(* Specifications.                                                         *)

NoCaches ==
    /\ load_cache = NoCache
    /\ fc_cache = {}
    /\ loaded_from = None

\* The dashboard: runs of the script, one after the other.
Init ==
    /\ disk \in AppFiles
    /\ NoCaches
    /\ pc = "load"
    /\ data = <<>>
    /\ NoOutputs
    /\ prophet = AppProphet
    /\ NoDirectCall

Next ==
    \/ Load
    \/ Sidebar
    \/ KpiCards
    \/ Tab2
    \/ Tab3
    \/ Rerun
    \/ DiskChange
    \/ ClearCache

Spec == Init /\ [][Next]_vars

\* load_data on every file.
InitLoad ==
    /\ disk \in AllFiles
    /\ NoCaches
    /\ pc = "load"
    /\ data = <<>>
    /\ NoOutputs
    /\ prophet = AppProphet
    /\ NoDirectCall

NextLoad == Load

SpecLoad == InitLoad /\ [][NextLoad]_vars

\* forecast_city on every record set with one answer of the model, and on one
\* record set with every answer of the model.
InitForecast ==
    /\ disk = MissingFile
    /\ NoCaches
    /\ pc = "call"
    /\ NoOutputs
    /\ NoDirectCall
    /\ \/ /\ data \in SeqsUpTo(SeriesRows, MaxRows)
          /\ prophet = FlatProphet
       \/ /\ data = ValuesFrame
          /\ prophet \in [1..MaxDays -> Triples]

NextForecast ==
    \/ ForecastCall
    \/ ScriptCall
    \/ Summarize

SpecForecast == InitForecast /\ [][NextForecast]_vars


-----------------------------------------------------------------------------
(* Properties.                                                             *)

Fields == {"yhat", "yhat_lower", "yhat_upper"}

Called == pc \in {"called", "summarized"}

\* Either forecast_city, of the dashboard or of the script, has been called.
Extracted == pc \in {"called", "summarized", "script_called"}

Returned == Called /\ forecast[1].raised = ""

Ordered(r) == r.yhat_lower <= r.yhat /\ r.yhat <= r.yhat_upper

\* The rows of `_data` that belong to city c, by their positions, ascending.
CityPositions(_data, c) == SortedSeq({i \in DOMAIN _data : _data[i]["City"] = c})

\* C1: a rainfall forecast returned by forecast_city has no negative value:
\* each of yhat, yhat_lower and yhat_upper is 0 where the model's own value
\* was negative, and is the model's own value where that was not negative.
C1_RainfallClippedAtZero ==
    (Returned /\ fc_args[1].column = RainColumn) =>
        \A k \in DOMAIN forecast[1].rows : \A f \in Fields :
            LET raw == prophet[k][f]
                out == forecast[1].rows[k][f]
            IN  /\ out >= 0
                /\ raw < 0 => out = 0
                /\ raw >= 0 => out = raw

\* C1 witness: a returned rainfall forecast with a day the model put at -3.2 mm,
\* reported as 0, and a day with a positive value, reported as it was.
C1_Witness ==
    /\ Returned
    /\ fc_args[1].column = RainColumn
    /\ \E k \in DOMAIN forecast[1].rows :
          prophet[k].yhat = -32 /\ forecast[1].rows[k].yhat = 0
    /\ \E k \in DOMAIN forecast[1].rows :
          prophet[k].yhat > 0 /\ forecast[1].rows[k].yhat = prophet[k].yhat

\* C2: in every record forecast_city returns, lower bound <= point estimate <=
\* upper bound whenever the model's own answer for that day was so ordered: the
\* three independent clips of a rainfall forecast keep the order.
C2_BoundsStayOrdered ==
    Returned =>
        \A k \in DOMAIN forecast[1].rows :
            Ordered(prophet[k]) => Ordered(forecast[1].rows[k])

\* C2 witness: a returned rainfall record whose lower bound and point estimate
\* were both raised to 0 by the clip while the upper bound was kept.
C2_Witness ==
    /\ Returned
    /\ fc_args[1].column = RainColumn
    /\ \E k \in DOMAIN forecast[1].rows :
          /\ prophet[k] = T(-72, -32, 8)
          /\ forecast[1].rows[k] = [ds |-> forecast[1].rows[k].ds, yhat |-> 0,
                                    yhat_lower |-> 0, yhat_upper |-> 8]

\* C3: a returned forecast has exactly `days` records, the k-th dated k days
\* after the last historical date of the city: nothing historical, no gap, no
\* duplicate.
C3_FutureDaysOnly ==
    Returned =>
        LET c == fc_args[1].city
            last == MaxOf({data[i]["Date"][1] : i \in Range(CityPositions(data, c))})
            rows == forecast[1].rows
        IN  /\ Len(rows) = fc_args[1].days
            /\ \A k \in DOMAIN rows : rows[k].ds = last + k

\* C3 witness: a forecast of two days or more returned for a history that is
\* unsorted, has a duplicate date and a gap.
C3_Witness ==
    /\ Returned
    /\ fc_args[1].days >= 2
    /\ \E i, j \in DOMAIN df : i < j /\ df[i].ds > df[j].ds
    /\ \E i, j \in DOMAIN df : i < j /\ df[i].ds = df[j].ds
    /\ \E d \in DsOf(df) : d + 1 \notin DsOf(df) /\ d < MaxOf(DsOf(df))

\* C4: the advisory is heavy exactly for a total above 50 mm, moderate exactly
\* for a total above 10 mm and at most 50 mm, mostly dry exactly for a total of
\* at most 10 mm, the total being the sum of the point estimates returned.
C4_RainAdvisoryBands ==
    pc = "summarized" =>
        LET total == total_pred_rain[1]
        IN  /\ total = SumSeq([k \in 1..fc_args[1].days |->
                                  IF prophet[k].yhat < 0 THEN 0 ELSE prophet[k].yhat])
            /\ rain_insight \in {"heavy", "moderate", "dry"}
            /\ rain_insight = "heavy" <=> total > 500
            /\ rain_insight = "moderate" <=> (total > 100 /\ total <= 500)
            /\ rain_insight = "dry" <=> total <= 100

\* C4 witness: a total of exactly 50 mm, classified moderate.
C4_Witness ==
    /\ pc = "summarized"
    /\ total_pred_rain = Some(500)
    /\ rain_insight = "moderate"

\* C5: when the city and date-range filter matches no row, the KPI cards hold
\* the explicit no-data state and no number.
C5_EmptySelectionIsExplicit ==
    (kpi # NoKpi /\ CityData(data, city, date_range) = <<>>) =>
        kpi.state = "no_data"

Unavailable(file) ==
    \/ file.kind \in {"missing", "unreadable"}
    \/ "Date" \notin {Rename(h) : h \in file.columns}

\* C6: when the file load_data read could not be opened or read, or had no Date
\* column after the renaming, load_data raised nothing, showed an error and
\* returned an empty frame, and the run stopped with nothing computed.
C6_UnavailableSourceStopsTheRun ==
    (pc # "load" /\ loaded_from # None /\ Unavailable(loaded_from[1])) =>
        /\ exc = ""
        /\ err # ""
        /\ data = <<>>
        /\ pc = "stopped"
        /\ kpi = NoKpi
        /\ forecast_temp = None
        /\ forecast_rain = None
        /\ comparison = NoComparison

\* C7: a run in which forecast_city failed still has its KPI cards and its
\* city comparison.
C7_ForecastFailureIsConfined ==
    (pc = "error" /\ exc = "forecast") =>
        /\ kpi.state = "values"
        /\ comparison # NoComparison

ReadableWithDate(file) ==
    file.kind = "table" /\ "Date" \in {Rename(h) : h \in file.columns}

\* C8: for a readable file with a date column, load_data returns the rows
\* whose date parses, each once and in the order of the file, with the parsed
\* date; a row of a city the coordinate table lacks is kept, its lat and lon
\* null.
C8_LoadKeepsRowsWithDates ==
    (pc # "load" /\ loaded_from # None /\ ReadableWithDate(loaded_from[1])) =>
        LET inp == loaded_from[1].rows
            kept == SortedSeq({i \in DOMAIN inp : ParseDate(inp[i]["Date"]) # NaT})
        IN  /\ exc = ""
            /\ Len(data) = Len(kept)
            /\ \A k \in DOMAIN data :
                  LET row == data[k]
                      src == inp[kept[k]]
                  IN  /\ row["Date"] # NaT
                      /\ row["Date"] = ParseDate(src["Date"])
                      /\ \A col \in Columns \ {"Date"} : row[col] = src[col]
                      /\ row["City"] \notin DOMAIN coords =>
                            row["lat"] = None /\ row["lon"] = None
                      /\ row["City"] \in DOMAIN coords =>
                            /\ row["lat"] = Some(coords[row["City"]][1])
                            /\ row["lon"] = Some(coords[row["City"]][2])

\* C8 witness: a file with a row whose date does not parse and a row of an
\* unmapped city whose date parses, loaded: the second is kept, without
\* coordinates, and the first is gone.
C8_Witness ==
    /\ pc # "load"
    /\ loaded_from # None
    /\ ReadableWithDate(loaded_from[1])
    /\ \E i \in DOMAIN loaded_from[1].rows :
          ParseDate(loaded_from[1].rows[i]["Date"]) = NaT
    /\ Len(data) < Len(loaded_from[1].rows)
    /\ \E k \in DOMAIN data : data[k]["City"] = "Amaravati" /\ data[k]["lat"] = None

Ascending(frame) ==
    \A i, j \in DOMAIN frame : i < j => frame[i].ds <= frame[j].ds

C10_ServedForecastIsOfThisData ==
    pc \in {"tab3", "done"} =>
        /\ forecast_temp =
              ForecastCity(data, city, TempColumn, ForecastDays, prophet).rows
        /\ forecast_rain =
              ForecastCity(data, city, RainColumn, ForecastDays, prophet).rows

\* C10 witness: both forecasts of a finished run came from the cache while the
\* file on disk had changed into one whose forecast would differ.
C10_Witness ==
    /\ pc = "done"
    /\ served = <<TRUE, TRUE>>
    /\ LoadDataBody(disk).raised = ""
    /\ ForecastCity(LoadDataBody(disk).frame, city, RainColumn, ForecastDays,
                    prophet).rows # forecast_rain

=============================================================================
